---------------------------- MODULE Spec2Model ----------------------------
(***************************************************************************)
(* The Autobahn test server of tests/test_tcp_server.py: one               *)
(* AutobahnTestServer object per port, each accepting TCP connections and  *)
(* running one handle_client coroutine per connection.  A handler reads    *)
(* length-prefixed frames from its asyncio StreamReader, classifies each   *)
(* fully read payload and counts it in the tx_count field of the server    *)
(* object it was started from.                                             *)
(*                                                                         *)
(* The model keeps the bytes: a peer puts the wire bytes of a frame on the *)
(* connection, the network delivers them to the reader's buffer in chunks, *)
(* and reader.read(n) returns what StreamReader.read returns: at most n    *)
(* bytes of what is buffered, b'' at end of stream.                        *)
(***************************************************************************)
EXTENDS Integers, Sequences, FiniteSets, TLC

(***************************************************************************)
(* Bounds of the model.                                                    *)
(***************************************************************************)
NumPorts == 2      \* listening ports modelled (main() starts four)
MaxConns == 2      \* connections accepted over the whole run
MaxFrames == 2     \* frames the peers put on the wire, over all connections
MaxResets == 1     \* connections that are reset, over the whole run

FirstPort == 4000
Ports == FirstPort .. (FirstPort + NumPorts - 1)
Conns == 1 .. MaxConns
NoPort == FirstPort - 1

(***************************************************************************)
(* Payloads the peers choose from.  Bytes are integers 0..255.             *)
(***************************************************************************)
SampleTx == <<0, 0, 0, 0, 0, 0, 0, 0, 42>>
UnknownTx == <<5, 1, 2, 3, 4, 250, 6, 7, 8, 9>>
StandardTx == <<1, 255, 254, 0, 0, 0, 0, 1, 0, 9, 9, 9, 9, 9, 9, 9, 9, 9, 9, 9>>
ShortTx == <<1, 2, 3>>
EmptyTx == <<>>
Payloads == {SampleTx, UnknownTx, StandardTx, ShortTx, EmptyTx}

VARIABLES
    proc,       \* "running" | "exited": the process of asyncio.run(main())
    listener,   \* per port: "starting" | "listening" | "failed"
    tx_count,   \* per port: self.tx_count of that port's AutobahnTestServer
    pc,         \* per connection: the position of its handle_client coroutine
    port,       \* per connection: the port it was accepted on
    length,     \* per connection: the local `length` of its handler
    buf,        \* per connection: bytes delivered to its StreamReader, unread
    eof,        \* per connection: the peer has closed its end (feed_eof)
    err,        \* per connection: the connection was reset (set_exception)
    pending,    \* per connection: bytes of the peer's current frame not yet delivered
    frames,     \* per connection: the payloads the peer has put on the wire
    log         \* per connection: the lines logged by its handler, in order

vars == <<proc, listener, tx_count, pc, port, length, buf, eof, err,
          pending, frames, log>>

----------------------------------------------------------------------------
(***************************************************************************)
(* Helpers on byte sequences.                                              *)
(***************************************************************************)
Min(a, b) == IF a < b THEN a ELSE b

Take(s, n) == SubSeq(s, 1, Min(n, Len(s)))

Drop(s, n) == SubSeq(s, Min(n, Len(s)) + 1, Len(s))

\* struct.pack('>I', n), as the peer writes the length prefix (n < 2^31 here)
Pack32(n) == << (n \div 16777216) % 256, (n \div 65536) % 256,
                (n \div 256) % 256, n % 256 >>

\* struct.unpack('>I', b)[0]
Unpack32(b) == ((b[1] * 256 + b[2]) * 256 + b[3]) * 256 + b[4]

\* struct.unpack('<Q', b)[0]: the least significant byte first
Unpack64LE(b) == << b[8] * 256 + b[7], b[6] * 256 + b[5],
                    b[4] * 256 + b[3], b[2] * 256 + b[1] >>

\* struct.unpack('>Q', b)[0].  The 64-bit value is held as its four 16-bit
\* digits, most significant first (TLC's integers are 32 bits wide).
Unpack64(b) == << b[1] * 256 + b[2], b[3] * 256 + b[4],
                  b[5] * 256 + b[6], b[7] * 256 + b[8] >>

Wire(payload) == Pack32(Len(payload)) \o payload

\* Where the network may split the wire bytes of a frame into deliveries:
\* inside the prefix, after the prefix, inside the payload, at the end.
Cuts(payload) == {2, 4, 4 + (3 * Len(payload)) \div 4, 4 + Len(payload)}

AllCuts == UNION {Cuts(payload) : payload \in Payloads}

RECURSIVE SumLen(_)
SumLen(S) == IF S = {} THEN 0
             ELSE LET c == CHOOSE x \in S : TRUE
                  IN Len(frames[c]) + SumLen(S \ {c})

----------------------------------------------------------------------------
Init ==
    /\ proc = "running"
    /\ listener = [p \in Ports |-> "starting"]
    /\ tx_count = [p \in Ports |-> 0]
    /\ pc = [c \in Conns |-> "Unborn"]
    /\ port = [c \in Conns |-> NoPort]
    /\ length = [c \in Conns |-> 0]
    /\ buf = [c \in Conns |-> <<>>]
    /\ eof = [c \in Conns |-> FALSE]
    /\ err = [c \in Conns |-> FALSE]
    /\ pending = [c \in Conns |-> <<>>]
    /\ frames = [c \in Conns |-> <<>>]
    /\ log = [c \in Conns |-> <<>>]

Live(c) == pc[c] \in {"AwaitingLength", "AwaitingPayload"}

(***************************************************************************)
(* Listener Set: main() and start_server.                                  *)
(***************************************************************************)
\* asyncio.start_server binds and listens; the tasks run in creation order
StartServer(p) ==
    /\ proc = "running"
    /\ listener[p] = "starting"
    /\ \A q \in Ports : q < p => listener[q] = "listening"
    /\ listener' = [listener EXCEPT ![p] = "listening"]
    /\ UNCHANGED <<proc, tx_count, pc, port, length, buf, eof, err,
                   pending, frames, log>>

\* the bind raises OSError and nothing ends the process
BindFailSurvives(p) ==
    /\ proc = "running"
    /\ listener[p] = "starting"
    /\ \A q \in Ports : q < p => listener[q] = "listening"
    /\ listener' = [listener EXCEPT ![p] = "failed"]
    /\ UNCHANGED <<proc, tx_count, pc, port, length, buf, eof, err,
                   pending, frames, log>>

\* the bind raises OSError: gather re-raises it in main, which catches only
\* KeyboardInterrupt, so asyncio.run cancels the other start_server tasks
\* (their `async with server` closes the listening sockets) and the
\* process ends
BindFail(p) ==
    /\ proc = "running"
    /\ listener[p] = "starting"
    /\ \A q \in Ports : q < p => listener[q] = "listening"
    /\ listener' = [q \in Ports |-> IF q = p THEN "failed" ELSE "closed"]
    /\ proc' = "exited"
    /\ UNCHANGED <<tx_count, pc, port, length, buf, eof, err,
                   pending, frames, log>>

\* a connection arrives on port p: the server starts handle_client for it,
\* which logs the connect line and suspends in its first read.  The
\* start_server tasks bind in the same pass of the event loop, so a
\* connection is accepted only once every port is listening.  The servers
\* are alike, so the ports are taken into use in increasing order.
PortInOrder(p) == \A q \in Ports : q < p => \E d \in Conns : port[d] = q

\* an accept loop that runs the handler itself before it accepts again
CanAcceptSerial(c) ==
    /\ pc[c] = "Unborn"
    /\ \A d \in Conns : d < c => pc[d] # "Unborn"
    /\ \A d \in Conns : pc[d] \notin {"AwaitingLength", "AwaitingPayload", "Closing"}

\* asyncio.start_server runs handle_client as a task of its own for each
\* connection: accepting the next one waits for no handler
CanAccept(c) ==
    /\ pc[c] = "Unborn"
    /\ \A d \in Conns : d < c => pc[d] # "Unborn"

Accept(c, p) ==
    /\ proc = "running"
    /\ \A q \in Ports : listener[q] = "listening"
    /\ CanAccept(c)
    /\ PortInOrder(p)
    /\ pc' = [pc EXCEPT ![c] = "AwaitingLength"]
    /\ port' = [port EXCEPT ![c] = p]
    /\ log' = [log EXCEPT ![c] = <<[kind |-> "connect"]>>]
    /\ UNCHANGED <<proc, listener, tx_count, length, buf, eof, err,
                   pending, frames>>

(***************************************************************************)
(* The peer and the network.                                               *)
(***************************************************************************)
PeerFrame(c, payload) ==
    /\ proc = "running"
    /\ Live(c) /\ ~eof[c]
    /\ pending[c] = <<>>
    /\ SumLen(Conns) < MaxFrames
    /\ frames' = [frames EXCEPT ![c] = Append(@, payload)]
    /\ pending' = [pending EXCEPT ![c] = Wire(payload)]
    /\ UNCHANGED <<proc, listener, tx_count, pc, port, length, buf, eof, err, log>>

Deliver(c, cut) ==
    /\ proc = "running"
    /\ Live(c) /\ ~eof[c]
    /\ pending[c] # <<>>
    /\ LET payload == frames[c][Len(frames[c])]
           done == Len(Wire(payload)) - Len(pending[c])
       IN /\ cut \in Cuts(payload)
          /\ cut > done
          /\ buf' = [buf EXCEPT ![c] = @ \o Take(pending[c], cut - done)]
          /\ pending' = [pending EXCEPT ![c] = Drop(@, cut - done)]
    /\ UNCHANGED <<proc, listener, tx_count, pc, port, length, eof, err,
                   frames, log>>

\* the peer closes its end; what it had not sent of a frame is never sent
PeerClose(c) ==
    /\ proc = "running"
    /\ Live(c) /\ ~eof[c]
    /\ eof' = [eof EXCEPT ![c] = TRUE]
    /\ UNCHANGED <<proc, listener, tx_count, pc, port, length, buf, err,
                   pending, frames, log>>

(***************************************************************************)
(* Connection Handler: handle_client.                                      *)
(***************************************************************************)
\* a read that returns b'' whenever nothing is buffered
ReadReadyAlways(c, n) == TRUE

\* StreamReader.read(n) can return: it waits only while nothing is buffered
\* and the stream is open; read(0) returns b'' at once
ReadReady(c, n) == n = 0 \/ buf[c] # <<>> \/ eof[c]

\* what `await reader.read(n)` returns: at most n of the buffered bytes
Read(c, n) == Take(buf[c], n)

RestAll(c, n) == buf[c]

\* what the read leaves in the reader's buffer
Rest(c, n) == Drop(buf[c], n)

PrefixEndOrShort(length_bytes) == Len(length_bytes) < 4

\* `if not length_bytes`
PrefixEnd(length_bytes) == length_bytes = <<>>

\* `if len(length_bytes) < 4`
PrefixShort(length_bytes) == Len(length_bytes) < 4

PayloadEmpty(tx_data, n) == tx_data = <<>> /\ n # 0

\* `if not tx_data or len(tx_data) != length`
PayloadShortOrEmpty(tx_data, n) == tx_data = <<>> \/ Len(tx_data) # n

\* `if len(tx_data) != length`
PayloadShort(tx_data, n) == Len(tx_data) # n

\* `if len(tx_data) >= 9`
Countable(tx_data) == Len(tx_data) >= 9

IncTxCountAll(p) == [q \in Ports |-> tx_count[q] + 1]

\* `self.tx_count = 1`
SetTxCount(p) == [tx_count EXCEPT ![p] = 1]

\* `self.tx_count += 1`, self being the server object of the handler's port
IncTxCount(p) == [tx_count EXCEPT ![p] = @ + 1]

KindTwo(tx_type) == IF tx_type = 0 THEN "SAMPLE" ELSE "STANDARD"

\* the if / elif / else on tx_type that picks the logged line
Kind(tx_type) == IF tx_type = 0 THEN "SAMPLE"
                 ELSE IF tx_type = 1 THEN "STANDARD"
                 ELSE "UNKNOWN"

\* the line logged for a counted transaction; only the UNKNOWN line names
\* the type
ClassLine(tx_type, tx_id, count, size) ==
    IF Kind(tx_type) = "UNKNOWN"
    THEN [kind |-> "UNKNOWN", count |-> count, tx_type |-> tx_type,
          tx_id |-> tx_id, size |-> size]
    ELSE [kind |-> Kind(tx_type), count |-> count, tx_id |-> tx_id, size |-> size]

\* `break`, then the finally block up to its await: writer.close()
Leave(c) == pc' = [pc EXCEPT ![c] = "Closing"]

\* the end of the loop body: back to `while True` and the read of a prefix
Continue(c) == pc' = [pc EXCEPT ![c] = "AwaitingLength"]

\* the too-short branch, were it to end the loop
ShortEnds(c) == Leave(c)

\* the else branch of the length test falls through to the end of the loop body
AfterShort(c) == Continue(c)

\* length_bytes = await reader.read(4) and what follows up to the next await
ReadLength(c) ==
    /\ proc = "running"
    /\ pc[c] = "AwaitingLength"
    /\ ReadReady(c, 4)
    /\ LET length_bytes == Read(c, 4)
       IN /\ buf' = [buf EXCEPT ![c] = Rest(c, 4)]
          /\ IF PrefixEnd(length_bytes)
             THEN /\ Leave(c)
                  /\ UNCHANGED <<length, log>>
             ELSE IF PrefixShort(length_bytes)
             THEN /\ Leave(c)
                  /\ log' = [log EXCEPT ![c] = Append(@, [kind |-> "incomplete_prefix"])]
                  /\ UNCHANGED length
             ELSE /\ length' = [length EXCEPT ![c] = Unpack32(length_bytes)]
                  /\ log' = [log EXCEPT ![c] =
                               Append(@, [kind |-> "expecting",
                                          length |-> Unpack32(length_bytes)])]
                  /\ pc' = [pc EXCEPT ![c] = "AwaitingPayload"]
    /\ UNCHANGED <<proc, listener, tx_count, port, eof, err, pending, frames>>

\* tx_data = await reader.read(length) and what follows up to the next await
ReadPayload(c) ==
    /\ proc = "running"
    /\ pc[c] = "AwaitingPayload"
    /\ ReadReady(c, length[c])
    /\ LET tx_data == Read(c, length[c])
       IN /\ buf' = [buf EXCEPT ![c] = Rest(c, length[c])]
          /\ IF PayloadShort(tx_data, length[c])
             THEN /\ Leave(c)
                  /\ log' = [log EXCEPT ![c] =
                               Append(@, [kind |-> "incomplete_data",
                                          expected |-> length[c],
                                          got |-> Len(tx_data)])]
                  /\ UNCHANGED tx_count
             ELSE IF Countable(tx_data)
             THEN /\ tx_count' = IncTxCount(port[c])
                  /\ log' = [log EXCEPT ![c] =
                               Append(@, ClassLine(tx_data[1],
                                                   Unpack64(SubSeq(tx_data, 2, 9)),
                                                   tx_count'[port[c]],
                                                   Len(tx_data)))]
                  /\ Continue(c)
             ELSE /\ log' = [log EXCEPT ![c] =
                               Append(@, [kind |-> "too_short", size |-> Len(tx_data)])]
                  /\ AfterShort(c)
                  /\ UNCHANGED tx_count
    /\ UNCHANGED <<proc, listener, port, length, eof, err, pending, frames>>

\* the connection is reset while the handler is suspended in a read: the
\* read raises and `except Exception` logs the error.  Once the end of the
\* stream has been received the transport reads no more, and the server
\* never writes, so no error reaches a read after that.
ReadError(c) ==
    /\ proc = "running"
    /\ Live(c)
    /\ ~eof[c]
    /\ Cardinality({d \in Conns : err[d]}) < MaxResets
    /\ err' = [err EXCEPT ![c] = TRUE]
    /\ Leave(c)
    /\ log' = [log EXCEPT ![c] = Append(@, [kind |-> "error"])]
    /\ UNCHANGED <<proc, listener, tx_count, port, length, buf, eof,
                   pending, frames>>

\* `await writer.wait_closed()` returns; the disconnect line is logged
WaitClosed(c) ==
    /\ proc = "running"
    /\ pc[c] = "Closing"
    /\ pc' = [pc EXCEPT ![c] = "Closed"]
    /\ log' = [log EXCEPT ![c] =
                 Append(@, [kind |-> "disconnect", count |-> tx_count[port[c]]])]
    /\ UNCHANGED <<proc, listener, tx_count, port, length, buf, eof, err,
                   pending, frames>>

\* `await writer.wait_closed()` raises the error the connection was lost
\* with: the coroutine ends there, before the disconnect line
WaitClosedRaises(c) ==
    /\ proc = "running"
    /\ pc[c] = "Closing"
    /\ err[c]
    /\ pc' = [pc EXCEPT ![c] = "Raised"]
    /\ UNCHANGED <<proc, listener, tx_count, port, length, buf, eof, err,
                   pending, frames, log>>

----------------------------------------------------------------------------
Next ==
    \/ \E p \in Ports : StartServer(p)
    \/ \E p \in Ports : BindFail(p)
    \/ \E c \in Conns, p \in Ports : Accept(c, p)
    \/ \E c \in Conns, payload \in Payloads : PeerFrame(c, payload)
    \/ \E c \in Conns, cut \in AllCuts : Deliver(c, cut)
    \/ \E c \in Conns : PeerClose(c)
    \/ \E c \in Conns : ReadLength(c)
    \/ \E c \in Conns : ReadPayload(c)
    \/ \E c \in Conns : ReadError(c)
    \/ \E c \in Conns : WaitClosed(c)
    \/ \E c \in Conns : WaitClosedRaises(c)

Spec == Init /\ [][Next]_vars

\* The event loop runs every task that is ready: a handler whose read can
\* return, or whose wait_closed can, does take its step.
Fairness ==
    \A c \in Conns : /\ WF_vars(ReadLength(c))
                      /\ WF_vars(ReadPayload(c))
                      /\ WF_vars(WaitClosed(c))

SpecFair == Spec /\ Fairness

----------------------------------------------------------------------------
(***************************************************************************)
(* A second specification, for what the handler computes from one frame:   *)
(* a single connection whose peer has sent one whole frame and closed,     *)
(* all of it delivered before the handler's first read.  The type byte     *)
(* ranges over every value of a byte.                                      *)
(***************************************************************************)
TxTypes == 0 .. 255
TxIds == { <<0, 0, 0, 0, 0, 0, 0, 42>>,
           <<1, 2, 3, 4, 250, 6, 7, 8>>,
           <<255, 254, 0, 0, 0, 0, 1, 0>>,
           <<255, 255, 255, 255, 255, 255, 255, 255>>,
           <<0, 0, 0, 1, 0, 0, 0, 0>> }
Tails == { <<>>, <<9>>, <<7, 0, 7>> }
TypedPayloads == { <<t>> \o id \o tail : t \in TxTypes, id \in TxIds, tail \in Tails }

InitFrames ==
    /\ proc = "running"
    /\ listener = [p \in Ports |-> "listening"]
    /\ tx_count = [p \in Ports |-> 0]
    /\ pc = [c \in Conns |-> IF c = 1 THEN "AwaitingLength" ELSE "Unborn"]
    /\ port = [c \in Conns |-> IF c = 1 THEN FirstPort ELSE NoPort]
    /\ length = [c \in Conns |-> 0]
    /\ \E payload \in TypedPayloads :
          /\ buf = [c \in Conns |-> IF c = 1 THEN Wire(payload) ELSE <<>>]
          /\ frames = [c \in Conns |-> IF c = 1 THEN <<payload>> ELSE <<>>]
    /\ eof = [c \in Conns |-> c = 1]
    /\ err = [c \in Conns |-> FALSE]
    /\ pending = [c \in Conns |-> <<>>]
    /\ log = [c \in Conns |-> IF c = 1 THEN <<[kind |-> "connect"]>> ELSE <<>>]

NextFrames ==
    \/ \E c \in Conns : ReadLength(c)
    \/ \E c \in Conns : ReadPayload(c)
    \/ \E c \in Conns : WaitClosed(c)

SpecFrames == InitFrames /\ [][NextFrames]_vars

----------------------------------------------------------------------------
(***************************************************************************)
(* The lines of a connection's log.                                        *)
(***************************************************************************)
ClassKinds == {"SAMPLE", "STANDARD", "UNKNOWN"}
IsClass(e) == e.kind \in ClassKinds
IsResult(e) == e.kind \in ClassKinds \cup {"too_short"}
ClassLines(c) == SelectSeq(log[c], IsClass)
ResultLines(c) == SelectSeq(log[c], IsResult)
NumKind(c, k) == Cardinality({i \in 1 .. Len(log[c]) : log[c][i].kind = k})
LastLine(c) == log[c][Len(log[c])]
Session(c) == pc[c] # "Unborn"
WellFormed(c) == \A i \in 1 .. Len(frames[c]) : Len(frames[c][i]) >= 9

(***************************************************************************)
(* C1.  A connection whose peer sends K well-formed frames (each of        *)
(* length >= 9, in full) and then closes cleanly logs exactly K            *)
(* classification lines and then a disconnect line reporting K, whatever   *)
(* other connections do.                                                   *)
(***************************************************************************)
C1_CleanCloseCounts ==
    \A c \in Conns :
        (/\ pc[c] = "Closed"
         /\ eof[c] /\ pending[c] = <<>> /\ ~err[c]
         /\ WellFormed(c))
        => /\ Len(ClassLines(c)) = Len(frames[c])
           /\ LastLine(c) = [kind |-> "disconnect", count |-> Len(frames[c])]

(***************************************************************************)
(* C2.  The tx_count a session's handler uses equals the number of fully   *)
(* read records of length >= 9 on that same connection; it is 0 when the   *)
(* session is created.                                                     *)
(***************************************************************************)
C2_TxCountIsOwnRecords ==
    \A c \in Conns :
        pc[c] \in {"AwaitingLength", "AwaitingPayload", "Closing"}
        => tx_count[port[c]] = Len(ClassLines(c))

(***************************************************************************)
(* C3.  No step of one handler changes the tx_count observed by another    *)
(* session, two connections of the same port included.                     *)
(***************************************************************************)
C3_NoSharedState ==
    [][\A c, d \in Conns :
          (c # d /\ Session(d) /\ log'[c] # log[c])
          => tx_count'[port[d]] = tx_count[port[d]]]_vars

(***************************************************************************)
(* C4.  A connection that has its port to itself numbers its counted       *)
(* frames 1, 2, 3, ... in arrival order, whatever connections on other     *)
(* ports do in between.                                                    *)
(***************************************************************************)
C4_IndependentPorts ==
    \A c \in Conns :
        (Session(c) /\ \A d \in Conns \ {c} : Session(d) => port[d] # port[c])
        => /\ \A i \in 1 .. Len(ClassLines(c)) : ClassLines(c)[i].count = i
           /\ tx_count[port[c]] = Len(ClassLines(c))

C4_Witness ==
    \E c, d \in Conns :
        /\ Live(c) /\ Live(d) /\ port[c] # port[d]
        /\ Len(ClassLines(c)) >= 1 /\ Len(ClassLines(d)) >= 1

(***************************************************************************)
(* Steps of a handler, told from the two states of the step.               *)
(***************************************************************************)
\* the read of a length prefix returns (it does not raise)
ReadsPrefix(c) == pc[c] = "AwaitingLength" /\ pc'[c] # pc[c] /\ ~err'[c]

\* the read of a payload returns (it does not raise)
ReadsPayload(c) == pc[c] = "AwaitingPayload" /\ pc'[c] # pc[c] /\ ~err'[c]

\* the payload read returns all of the declared length
FullPayload(c) == ReadsPayload(c) /\ Len(buf[c]) >= length[c]

Left(c) == pc[c] \in {"Closing", "Closed", "Raised"}

\* a handler that has left its loop reads nothing and classifies nothing
NoReadAfterLeave(c) ==
    Left(c) => /\ buf'[c] = buf[c]
               /\ pc'[c] \in {"Closing", "Closed", "Raised"}
               /\ tx_count' = tx_count \/ \E d \in Conns \ {c} : log'[d] # log[d]
               /\ \/ log'[c] = log[c]
                  \/ /\ pc[c] = "Closing"
                     /\ log'[c] = Append(log[c], [kind |-> "disconnect",
                                                  count |-> tx_count[port[c]]])

(***************************************************************************)
(* C5.  In AwaitingLength a read of 0 bytes ends the handler with no       *)
(* warning; a read of 1 to 3 bytes logs exactly one 'incomplete length     *)
(* prefix' warning and ends the handler, with no classification line and   *)
(* no further read.  A peer that sends 2 of the 4 prefix bytes and closes  *)
(* gets exactly one such warning and no classification line.               *)
(***************************************************************************)
C5_TwoOfFour(c) ==
    /\ pc[c] = "Closed" /\ ~err[c]
    /\ Len(frames[c]) = 1
    /\ Len(pending[c]) = Len(Wire(frames[c][1])) - 2

C5_IncompletePrefix ==
    /\ [](\A c \in Conns :
             C5_TwoOfFour(c) => /\ NumKind(c, "incomplete_prefix") = 1
                                /\ ClassLines(c) = <<>>)
    /\ [][\A c \in Conns :
             /\ ReadsPrefix(c) =>
                   /\ Len(buf[c]) = 0 => pc'[c] = "Closing" /\ log'[c] = log[c]
                   /\ Len(buf[c]) \in 1 .. 3 =>
                         /\ pc'[c] = "Closing"
                         /\ log'[c] = Append(log[c], [kind |-> "incomplete_prefix"])
                         /\ tx_count' = tx_count
             /\ NoReadAfterLeave(c)]_vars

C5_Witness ==
    \E c \in Conns :
        /\ C5_TwoOfFour(c) /\ eof[c]
        /\ log[c] = << [kind |-> "connect"], [kind |-> "incomplete_prefix"],
                       [kind |-> "disconnect", count |-> 0] >>

(***************************************************************************)
(* C6.  In AwaitingPayload a read that returns fewer bytes than declared   *)
(* (none included) logs exactly one 'incomplete transaction data' warning  *)
(* with the expected and the actual count, logs no classification line,    *)
(* leaves tx_count alone and ends the handler with no further read.  A     *)
(* declared length of 20 with 15 bytes sent before the close gives exactly *)
(* one warning and no classification line.                                 *)
(***************************************************************************)
C6_FifteenOfTwenty(c) ==
    /\ pc[c] = "Closed" /\ ~err[c]
    /\ Len(frames[c]) = 1
    /\ Len(frames[c][1]) = 20
    /\ Len(pending[c]) = 5

C6_IncompletePayload ==
    /\ [](\A c \in Conns :
             C6_FifteenOfTwenty(c) =>
                /\ NumKind(c, "incomplete_data") = 1
                /\ \E i \in 1 .. Len(log[c]) :
                      log[c][i] = [kind |-> "incomplete_data",
                                   expected |-> 20, got |-> 15]
                /\ ClassLines(c) = <<>>)
    /\ [][\A c \in Conns :
             /\ (ReadsPayload(c) /\ Len(buf[c]) < length[c]) =>
                   /\ pc'[c] = "Closing"
                   /\ log'[c] = Append(log[c], [kind |-> "incomplete_data",
                                                expected |-> length[c],
                                                got |-> Len(buf[c])])
                   /\ tx_count' = tx_count
             /\ NoReadAfterLeave(c)]_vars

C6_Witness ==
    \E c \in Conns :
        /\ C6_FifteenOfTwenty(c) /\ eof[c]
        /\ LastLine(c).kind = "disconnect"
        /\ NumKind(c, "incomplete_data") = 1

(***************************************************************************)
(* C7.  A fully read payload shorter than 9 bytes is no error: the handler *)
(* logs 'transaction too short', leaves tx_count alone, extracts no type   *)
(* and no id, and goes back to AwaitingLength, so that later frames of the *)
(* connection are still read and classified.                               *)
(***************************************************************************)
C7_TooShortContinues ==
    [][\A c \in Conns :
          (FullPayload(c) /\ length[c] < 9) =>
             /\ log'[c] = Append(log[c], [kind |-> "too_short", size |-> length[c]])
             /\ tx_count' = tx_count
             /\ pc'[c] = "AwaitingLength"
             /\ buf'[c] = Drop(buf[c], length[c])]_vars

C7_Witness ==
    \E c \in Conns :
        \E i, j \in 1 .. Len(log[c]) :
            /\ i < j
            /\ log[c][i] = [kind |-> "too_short", size |-> 3]
            /\ IsClass(log[c][j])

(***************************************************************************)
(* C8.  Every fully read payload of length >= 9 is counted, whatever its   *)
(* type byte (0..255): tx_count grows by exactly 1 and exactly one line is *)
(* logged, SAMPLE iff the type is 0, STANDARD iff it is 1, UNKNOWN with    *)
(* the type otherwise; the connection stays open.                          *)
(***************************************************************************)
C8_EveryTypeCounted ==
    [][\A c \in Conns :
          (FullPayload(c) /\ length[c] >= 9) =>
             LET tx_type == buf[c][1]
                 line == log'[c][Len(log'[c])]
             IN /\ tx_count'[port[c]] = tx_count[port[c]] + 1
                /\ Len(log'[c]) = Len(log[c]) + 1
                /\ SubSeq(log'[c], 1, Len(log[c])) = log[c]
                /\ line.kind \in ClassKinds
                /\ line.kind = "SAMPLE" <=> tx_type = 0
                /\ line.kind = "STANDARD" <=> tx_type = 1
                /\ line.kind = "UNKNOWN" <=> tx_type \notin {0, 1}
                /\ line.kind = "UNKNOWN" => line.tx_type = tx_type
                /\ line.count = tx_count'[port[c]]
                /\ pc'[c] = "AwaitingLength"]_vars

C8_Witness ==
    \E c \in Conns :
        /\ pc[c] = "AwaitingLength"
        /\ tx_count[port[c]] = 1
        /\ frames[c][1][1] = 5
        /\ LastLine(c).kind = "UNKNOWN"
        /\ LastLine(c).tx_type = 5

(***************************************************************************)
(* C9.  For every fully read payload of length >= 9 the logged tx_id is    *)
(* the big-endian unsigned 64-bit value of payload bytes 1..8, whatever    *)
(* the type byte and the bytes from index 9 on.  Type 0 followed by        *)
(* 00 00 00 00 00 00 00 2A on a fresh connection is SAMPLE, tx_id 42,      *)
(* tx_count 1.                                                             *)
(***************************************************************************)
\* the k-th most significant of the eight bytes of a 64-bit value held as
\* four 16-bit digits
ByteOf(id, k) == IF k % 2 = 1 THEN id[(k + 1) \div 2] \div 256
                 ELSE id[k \div 2] % 256

C9_TxIdBigEndian ==
    /\ [](\A c \in Conns :
             (frames[c] = <<SampleTx>> /\ ClassLines(c) # <<>>) =>
                /\ ClassLines(c) = << [kind |-> "SAMPLE", count |-> 1,
                                       tx_id |-> <<0, 0, 0, 42>>, size |-> 9] >>
                /\ tx_count[port[c]] = 1)
    /\ [][\A c \in Conns :
             (FullPayload(c) /\ length[c] >= 9) =>
                LET line == log'[c][Len(log'[c])]
                IN /\ Len(line.tx_id) = 4
                   /\ \A j \in 1 .. 4 : line.tx_id[j] \in 0 .. 65535
                   /\ \A k \in 1 .. 8 : ByteOf(line.tx_id, k) = buf[c][k + 1]]_vars

C9_Witness ==
    \E c \in Conns :
        /\ frames[c] = <<SampleTx>>
        /\ LastLine(c) = [kind |-> "SAMPLE", count |-> 1,
                          tx_id |-> <<0, 0, 0, 42>>, size |-> 9]

(***************************************************************************)
(* C10.  Within a connection the frames are handled strictly in arrival    *)
(* order: the result of frame N (its classification line or its too-short  *)
(* warning) is logged before the prefix of frame N+1 is read, the handler  *)
(* is in AwaitingPayload for one frame at a time, and the classification   *)
(* lines come in the order the frames were sent.                           *)
(***************************************************************************)
C10_ArrivalOrder ==
    \A c \in Conns :
        LET R == ResultLines(c)
        IN /\ Len(R) <= Len(frames[c])
           /\ \A i \in 1 .. Len(R) :
                 /\ R[i].size = Len(frames[c][i])
                 /\ IsClass(R[i]) <=> Len(frames[c][i]) >= 9
                 /\ IsClass(R[i]) =>
                       \A k \in 1 .. 8 : ByteOf(R[i].tx_id, k) = frames[c][i][k + 1]
           /\ \A i \in 1 .. Len(log[c]) :
                 /\ log[c][i].kind = "expecting" =>
                       IF i = Len(log[c]) THEN pc[c] = "AwaitingPayload"
                       ELSE log[c][i + 1].kind \in
                               ClassKinds \cup {"too_short", "incomplete_data", "error"}
                 /\ IsResult(log[c][i]) =>
                       /\ i > 1
                       /\ log[c][i - 1] = [kind |-> "expecting",
                                           length |-> log[c][i].size]
           /\ pc[c] = "AwaitingPayload" => LastLine(c).kind = "expecting"

C10_Witness ==
    \E c \in Conns :
        /\ Len(ResultLines(c)) = 2
        /\ Len(ClassLines(c)) = 2
        /\ frames[c][1] # frames[c][2]

(***************************************************************************)
(* C11.  On every exit path of a handler (clean end of stream, malformed   *)
(* prefix, short payload, error while reading) the connection is released  *)
(* and a final disconnect line reporting tx_count is logged, exactly once; *)
(* no handler ends without it, also when closing the connection reports an *)
(* error.                                                                  *)
(***************************************************************************)
Ended(c) == pc[c] \in {"Closed", "Raised"}

C11_EveryExitLogsDisconnect ==
    \A c \in Conns :
        Ended(c) => /\ NumKind(c, "disconnect") = 1
                    /\ LastLine(c).kind = "disconnect"

(***************************************************************************)
(* C12.  An error while reading on one connection is caught in that        *)
(* connection's handler, logged, and drives that handler to Closed; it     *)
(* changes the state of no other handler, stops no listener and does not   *)
(* end the process.                                                        *)
(***************************************************************************)
C12_ErrorStaysLocal ==
    /\ [](\A c \in Conns :
             err[c] => /\ pc[c] \in {"Closing", "Closed"}
                       /\ NumKind(c, "error") = 1
                       /\ proc = "running"
                       /\ \A p \in Ports : listener[p] = "listening")
    /\ [][\A c \in Conns :
             (err'[c] /\ ~err[c]) =>
                /\ pc'[c] = "Closing"
                /\ log'[c] = Append(log[c], [kind |-> "error"])
                /\ \A d \in Conns \ {c} :
                      /\ pc'[d] = pc[d] /\ log'[d] = log[d] /\ buf'[d] = buf[d]
                      /\ length'[d] = length[d] /\ err'[d] = err[d]
                /\ tx_count' = tx_count
                /\ listener' = listener
                /\ proc' = proc]_vars

(***************************************************************************)
(* C13.  Accepting never waits for a handler: whatever handlers are        *)
(* suspended in AwaitingLength or AwaitingPayload, a listening server can  *)
(* accept the next connection and start its handler, and a handler whose   *)
(* read can return takes its step whatever the other connections wait for. *)
(***************************************************************************)
Serving == proc = "running" /\ \A q \in Ports : listener[q] = "listening"

C13_AcceptNeverWaits ==
    /\ \A c \in Conns, p \in Ports :
          (/\ Serving
           /\ pc[c] = "Unborn" /\ \A d \in Conns : d < c => Session(d)
           /\ PortInOrder(p))
          => ENABLED Accept(c, p)
    /\ \A c \in Conns :
          /\ (Serving /\ pc[c] = "AwaitingLength" /\ (buf[c] # <<>> \/ eof[c]))
             => ENABLED ReadLength(c)
          /\ (Serving /\ pc[c] = "AwaitingPayload" /\ (buf[c] # <<>> \/ eof[c]))
             => ENABLED ReadPayload(c)

C13_Witness ==
    \E c, d \in Conns :
        /\ c < d
        /\ pc[c] = "AwaitingPayload" /\ buf[c] = <<>> /\ ~eof[c] /\ length[c] > 0
        /\ Live(d) /\ Len(ClassLines(d)) >= 1

(***************************************************************************)
(* C14.  A bind that fails at startup is fatal for the process and is not  *)
(* retried: once it has propagated the process has ended, no listener on   *)
(* any other port is accepting and nothing further happens.                *)
(***************************************************************************)
C14_BindFailureFatal ==
    \A p \in Ports :
        listener[p] = "failed"
        => /\ proc = "exited"
           /\ \A q \in Ports : listener[q] # "listening"
           /\ \A c \in Conns, q \in Ports : ~ENABLED Accept(c, q)
           /\ ~ENABLED Next

C14_Witness ==
    /\ proc = "exited"
    /\ listener[FirstPort] = "closed"
    /\ listener[FirstPort + 1] = "failed"

(***************************************************************************)
(* C15.  tx_count never decreases and is never reset: it changes only when *)
(* a fully read payload of length >= 9 is classified, and then by exactly  *)
(* 1; connect, the read of a prefix, a short or too-short payload, the     *)
(* warnings, error handling and disconnect leave it unchanged.             *)
(***************************************************************************)
Classifies(c) == FullPayload(c) /\ length[c] >= 9

C15_TxCountOnlyIncrements ==
    [][/\ \A p \in Ports : tx_count'[p] >= tx_count[p]
       /\ \A c \in Conns :
             Classifies(c) => tx_count' = [tx_count EXCEPT ![port[c]] = @ + 1]
       /\ (\A c \in Conns : ~Classifies(c)) => tx_count' = tx_count]_vars

C15_Witness ==
    \E c \in Conns : /\ pc[c] = "Closed"
                     /\ tx_count[port[c]] = 2
                     /\ NumKind(c, "disconnect") = 1

(***************************************************************************)
(* C16.  A framed read obtains exactly the bytes asked for whenever the    *)
(* peer sends that many before closing, however the stream is split into   *)
(* deliveries: a read returns fewer bytes than asked only when the peer    *)
(* has closed, so the incomplete-prefix and incomplete-payload paths are   *)
(* taken only after the peer closed the stream mid-frame.                  *)
(***************************************************************************)
C16_ExactReads ==
    /\ [](\A c \in Conns :
             (NumKind(c, "incomplete_prefix") + NumKind(c, "incomplete_data") > 0)
             => eof[c])
    /\ [][\A c \in Conns :
             /\ (ReadsPrefix(c) /\ ~eof[c]) => pc'[c] = "AwaitingPayload"
             /\ (ReadsPayload(c) /\ ~eof[c]) => pc'[c] = "AwaitingLength"]_vars

(***************************************************************************)
(* C17.  A frame of declared length 0 is a valid frame: the payload read   *)
(* returns at once with 0 bytes, which equals the declared length, so the  *)
(* handler logs the too-short warning, leaves tx_count unchanged and goes  *)
(* back to AwaitingLength; it takes neither the end-of-stream nor the      *)
(* incomplete-payload path.                                                *)
(***************************************************************************)
C17_ZeroLengthFrame ==
    /\ [](\A c \in Conns :
             (proc = "running" /\ pc[c] = "AwaitingPayload" /\ length[c] = 0)
             => ENABLED ReadPayload(c))
    /\ [][\A c \in Conns :
             (ReadsPayload(c) /\ length[c] = 0)
             => /\ pc'[c] = "AwaitingLength"
                /\ log'[c] = Append(log[c], [kind |-> "too_short", size |-> 0])
                /\ tx_count' = tx_count
                /\ buf'[c] = buf[c]
                /\ eof'[c] = eof[c]]_vars

C17_Witness ==
    \E c \in Conns :
        /\ pc[c] = "AwaitingLength" /\ ~eof[c]
        /\ LastLine(c) = [kind |-> "too_short", size |-> 0]
        /\ tx_count[port[c]] = 0

(***************************************************************************)
(* C18.  A handler leaves its read loop only by its own state machine: a   *)
(* read of 0 bytes at end of stream, a prefix of 1 to 3 bytes, a payload   *)
(* shorter than declared, or a caught error.  Closed is terminal: no read  *)
(* and no classification follows it.  Under fair scheduling, once the peer *)
(* has closed its end the handler reaches Closed, whatever part of a frame *)
(* had been sent.                                                          *)
(***************************************************************************)
LeavesLoop(c) == Live(c) /\ pc'[c] \notin {"AwaitingLength", "AwaitingPayload"}

OwnExit(c) ==
    \/ /\ pc[c] = "AwaitingLength" /\ buf[c] = <<>> /\ eof[c]
       /\ log'[c] = log[c]
    \/ /\ pc[c] = "AwaitingLength" /\ Len(buf[c]) \in 1 .. 3
       /\ log'[c] = Append(log[c], [kind |-> "incomplete_prefix"])
    \/ /\ pc[c] = "AwaitingPayload" /\ Len(buf[c]) < length[c]
       /\ log'[c] = Append(log[c], [kind |-> "incomplete_data",
                                    expected |-> length[c],
                                    got |-> Len(buf[c])])
    \/ /\ err'[c] /\ ~err[c]
       /\ log'[c] = Append(log[c], [kind |-> "error"])

C18_EndsOnlyByOwnMachine ==
    /\ [][\A c \in Conns :
             /\ LeavesLoop(c) => (pc'[c] = "Closing" /\ OwnExit(c))
             /\ pc[c] = "Closed" => /\ pc'[c] = "Closed"
                                    /\ log'[c] = log[c]
                                    /\ buf'[c] = buf[c]
                                    /\ length'[c] = length[c]]_vars
    /\ \A c \in Conns : eof[c] ~> (pc[c] = "Closed")

C18_Witness ==
    \E c \in Conns :
        /\ pc[c] = "Closed" /\ eof[c] /\ pending[c] # <<>>
        /\ NumKind(c, "incomplete_data") = 1

=============================================================================
